---- MODULE Spec2Model ----
(***************************************************************************)
(* A model of fresh (src/src/main.rs): a line-oriented find/replace tool.  *)
(* main() picks one of four functions (regex_replace, static_replace,      *)
(* regex_extract, static_extract); each reads the input with read_line,    *)
(* transforms the line and hands the result to Write::write.               *)
(*                                                                         *)
(* Text is a sequence of one-character strings.  Offsets are 0-based byte  *)
(* offsets as in the Rust code; Slice(t, s, e) is &t[s..e].                *)
(***************************************************************************)
EXTENDS Integers, Sequences, FiniteSets, TLC

\* ---------------------------------------------------------------- bounds
\* Longest input stream the model feeds to the program.
MaxInput == 3
\* Largest value given to -n/--number.
MaxNumber == 2
\* Bytes a short-writing sink accepts per write call.
ShortCap == 1
\* Passes through regex_extract's while loop the model follows for one line
\* (a line of MaxInput bytes has at most MaxInput + 1 matches).
MaxPasses == 5

\* ------------------------------------------------------------ text helpers
NL == "\n"
Alphabet == {"a", "b", NL}

Slice(t, s, e) == SubSeq(t, s + 1, e)

Min(x, y) == IF x <= y THEN x ELSE y

RECURSIVE Flatten(_)
Flatten(ws) == IF ws = <<>> THEN <<>> ELSE Head(ws) \o Flatten(Tail(ws))

RECURSIVE TextsUpTo(_)
TextsUpTo(k) ==
    IF k = 0 THEN {<<>>}
    ELSE LET shorter == TextsUpTo(k - 1)
         IN  shorter \cup {Append(t, c) : t \in shorter, c \in Alphabet}

\* ------------------------------------------------- std::str (verbatim mode)
\* Start offsets of the matches str::matches / str::split find for a literal
\* needle: leftmost, non-overlapping; an empty needle matches at every
\* character boundary.
RECURSIVE StrScan(_, _, _)
StrScan(t, pat, i) ==
    IF i + Len(pat) > Len(t) THEN <<>>
    ELSE IF Slice(t, i, i + Len(pat)) = pat
         THEN <<i>> \o StrScan(t, pat, i + Len(pat))
         ELSE StrScan(t, pat, i + 1)

StrMatches(t, pat) ==
    IF pat = <<>> THEN [j \in 1..(Len(t) + 1) |-> j - 1]
    ELSE StrScan(t, pat, 0)

\* The chunks cut out by the first `cuts` matches, the last chunk being the
\* remainder of the text.
RECURSIVE Chunks(_, _, _, _, _)
Chunks(t, pat, ms, cuts, from) ==
    IF cuts = 0 \/ ms = <<>> THEN <<Slice(t, from, Len(t))>>
    ELSE <<Slice(t, from, Head(ms))>>
         \o Chunks(t, pat, Tail(ms), cuts - 1, Head(ms) + Len(pat))

\* str::split(pat)
Split(t, pat) ==
    LET ms == StrMatches(t, pat) IN Chunks(t, pat, ms, Len(ms), 0)

\* str::splitn(n, pat): at most n items, the n-th being the remainder.
SplitN(n, t, pat) ==
    IF n = 0 THEN <<>>
    ELSE Chunks(t, pat, StrMatches(t, pat), n - 1, 0)

\* ------------------------------------------------------- regex crate model
\* A pattern is text over Alphabet plus the metacharacters "*" (greedy
\* repetition of the preceding character) and "(" (group opener).
\* Regex::new fails on an unclosed group and on a repetition operator with
\* nothing to repeat.
RegexValid(p) ==
    /\ \A i \in 1..Len(p) : p[i] # "("
    /\ (p # <<>> => p[1] # "*")

\* The compiled program: one atom per character, starred when followed by "*".
RECURSIVE Atoms(_)
Atoms(p) ==
    IF p = <<>> THEN <<>>
    ELSE IF Len(p) >= 2 /\ p[2] = "*"
         THEN <<[c |-> p[1], star |-> TRUE]>> \o Atoms(SubSeq(p, 3, Len(p)))
         ELSE <<[c |-> p[1], star |-> FALSE]>> \o Atoms(Tail(p))

\* Number of consecutive c in t from offset i.
RECURSIVE Run(_, _, _)
Run(t, c, i) == IF i < Len(t) /\ t[i + 1] = c THEN 1 + Run(t, c, i + 1) ELSE 0

\* End offset of the preferred (leftmost-first, greedy, backtracking) match of
\* atoms k.. starting at offset i, or -1.
RECURSIVE MatchFrom(_, _, _, _)
RECURSIVE TryStar(_, _, _, _, _)
MatchFrom(as, k, t, i) ==
    IF k > Len(as) THEN i
    ELSE IF as[k].star THEN TryStar(as, k, t, i, Run(t, as[k].c, i))
    ELSE IF i < Len(t) /\ t[i + 1] = as[k].c THEN MatchFrom(as, k + 1, t, i + 1)
    ELSE -1
TryStar(as, k, t, i, j) ==
    LET e == MatchFrom(as, k + 1, t, i + j)
    IN  IF e # -1 THEN e
        ELSE IF j = 0 THEN -1
        ELSE TryStar(as, k, t, i, j - 1)

NoMatch == [start |-> -1, end |-> -1]

\* Regex::find_at(text, start): the leftmost match starting at or after start.
RECURSIVE FindAt(_, _, _)
FindAt(as, t, start) ==
    IF start > Len(t) THEN NoMatch
    ELSE LET e == MatchFrom(as, 1, t, start)
         IN  IF e # -1 THEN [start |-> start, end |-> e]
             ELSE FindAt(as, t, start + 1)

\* The regex crate's match iterator (find_iter / captures_iter): successive
\* non-overlapping matches; after an empty match the search position moves on
\* by one character, and an empty match that abuts the previous match is
\* skipped.
RECURSIVE FindIter(_, _, _, _)
FindIter(as, t, last_end, last_match) ==
    IF last_end > Len(t) THEN <<>>
    ELSE LET m == FindAt(as, t, last_end)
         IN  IF m = NoMatch THEN <<>>
             ELSE IF m.start = m.end
                  THEN IF m.end = last_match
                       THEN FindIter(as, t, m.end + 1, last_match)
                       ELSE <<m>> \o FindIter(as, t, m.end + 1, m.end)
                  ELSE <<m>> \o FindIter(as, t, m.end, m.end)

\* Replacer for &str: "$0" in the template stands for the whole match, every
\* other character for itself.
RECURSIVE Expand(_, _)
Expand(tmpl, whole) ==
    IF tmpl = <<>> THEN <<>>
    ELSE (IF Head(tmpl) = "$0" THEN whole ELSE <<Head(tmpl)>>)
         \o Expand(Tail(tmpl), whole)

RECURSIVE Splice(_, _, _, _)
Splice(t, ms, tmpl, last) ==
    IF ms = <<>> THEN Slice(t, last, Len(t))
    ELSE Slice(t, last, Head(ms).start)
         \o Expand(tmpl, Slice(t, Head(ms).start, Head(ms).end))
         \o Splice(t, Tail(ms), tmpl, Head(ms).end)

\* Regex::replacen(text, limit, rep): replaces the first `limit` matches;
\* a limit of 0 replaces every match.
Replacen(as, t, limit, tmpl) ==
    LET all == FindIter(as, t, 0, -1)
        ms  == IF limit = 0 THEN all ELSE SubSeq(all, 1, Min(limit, Len(all)))
    IN  Splice(t, ms, tmpl, 0)

\* Regex::replace_all(text, rep) is replacen(text, 0, rep).
ReplaceAll(as, t, tmpl) == Replacen(as, t, 0, tmpl)

\* Regex::replace(text, rep) is replacen(text, 1, rep).
Replace(as, t, tmpl) == Replacen(as, t, 1, tmpl)

\* ----------------------------------------------------------------- options
None == [some |-> FALSE, v |-> <<>>]
Some(x) == [some |-> TRUE, v |-> x]
NoNumber == [some |-> FALSE, v |-> 0]

\* Values of the positional arguments the model runs the program with.
Patterns == {<<"a">>, <<"a", "b">>, <<NL>>, <<"a", "*">>, <<>>, <<"(">>}
Templates == {<<"b">>, <<"$0">>}
Numbers == {NoNumber} \cup {[some |-> TRUE, v |-> k] : k \in 0..MaxNumber}

\* How the sink behind `outstream` answers a write call: it takes the whole
\* buffer, takes only a prefix of it (returning the shorter count), or fails.
SinkModes == {"full", "short", "broken"}

VARIABLES
    opts,       \* struct Opts: pattern, replace, number, extract, simple
    instream,   \* bytes of the input stream not yet read
    sinkMode,   \* behaviour of the Write implementation behind outstream
    pc,         \* "start" | "read" | "scan" | "flush" | "done" | "err"
    err,        \* which Err the run returned: "none" | "pattern" | "read" | "write"
    buff,       \* the line the last read_line call put in buff
    recOut,     \* bytes handed to write calls for that line
    out,        \* all bytes handed to write calls that returned Ok
    sink,       \* all bytes the sink accepted
    nread,      \* number of lines read
    n,          \* regex_extract: matches processed in the current line
    cap_idx,    \* regex_extract: offset the next find_at starts from
    matched     \* regex_extract: whether the current line had a match

vars == <<opts, instream, sinkMode, pc, err, buff, recOut, out, sink, nread,
          n, cap_idx, matched>>

\* main()'s dispatch.
ExtractMode == (~opts.replace.some) \/ opts.extract
Cell ==
    IF ExtractMode
    THEN (IF opts.simple THEN "static_extract" ELSE "regex_extract")
    ELSE (IF opts.simple THEN "static_replace" ELSE "regex_replace")

re == Atoms(opts.pattern)

Init ==
    /\ opts \in [pattern : Patterns,
                 replace : {None} \cup {Some(t) : t \in Templates},
                 number  : Numbers,
                 extract : BOOLEAN,
                 simple  : BOOLEAN]
    /\ instream \in TextsUpTo(MaxInput)
    /\ sinkMode \in SinkModes
    /\ pc = IF opts.simple THEN "read" ELSE "start"
    /\ err = "none"
    /\ buff = <<>>
    /\ recOut = <<>>
    /\ out = <<>>
    /\ sink = <<>>
    /\ nread = 0
    /\ n = 0
    /\ cap_idx = 0
    /\ matched = FALSE

\* ------------------------------------------------------------------- I/O
\* BufRead::read_line: the bytes up to and including the next "\n", or all
\* that is left.
RECURSIVE LineLen(_, _)
LineLen(s, i) ==
    IF i > Len(s) THEN Len(s)
    ELSE IF s[i] = NL THEN i
    ELSE LineLen(s, i + 1)

ReadLine(s) == SubSeq(s, 1, LineLen(s, 1))
AfterLine(s) == SubSeq(s, LineLen(s, 1) + 1, Len(s))

\* What the sink keeps of one write call that returns Ok.
Accepted(w) ==
    IF sinkMode = "short" THEN SubSeq(w, 1, Min(Len(w), ShortCap)) ELSE w

RECURSIVE AcceptedAll(_)
AcceptedAll(ws) ==
    IF ws = <<>> THEN <<>> ELSE Accepted(Head(ws)) \o AcceptedAll(Tail(ws))

\* The write calls of one loop iteration, in order.  The count a call returns
\* is dropped by the callers (outstream.write(..).map_err(..)?), so a short
\* write goes unnoticed; an Err ends the run.
WriteCalls(ws, next) ==
    IF sinkMode = "broken" /\ ws # <<>>
    THEN /\ pc' = "err"
         /\ err' = "write"
         /\ recOut' = <<>>
         /\ UNCHANGED <<out, sink>>
    ELSE /\ pc' = next
         /\ recOut' = Flatten(ws)
         /\ out' = out \o Flatten(ws)
         /\ sink' = sink \o AcceptedAll(ws)
         /\ UNCHANGED err

\* read_line of a non-empty line.
TakeLine ==
    /\ instream # <<>>
    /\ buff' = ReadLine(instream)
    /\ instream' = AfterLine(instream)
    /\ nread' = nread + 1

\* -------------------------------------------------------------- operations
\* A variant of RegexNew that compiles the pattern only after the first
\* read_line, so that a compile failure surfaces with a line already consumed.
RegexNewAfterRead ==
    /\ pc = "start"
    /\ IF RegexValid(opts.pattern)
       THEN /\ pc' = "read"
            /\ UNCHANGED <<err, instream, buff, nread>>
       ELSE /\ pc' = "err"
            /\ err' = "pattern"
            /\ IF instream # <<>> THEN TakeLine
               ELSE UNCHANGED <<instream, buff, nread>>
    /\ UNCHANGED <<opts, sinkMode, recOut, out, sink, n, cap_idx, matched>>

\* Regex::new(patt) at the top of regex_replace and regex_extract.
RegexNew ==
    /\ pc = "start"
    /\ IF RegexValid(opts.pattern)
       THEN pc' = "read" /\ UNCHANGED err
       ELSE pc' = "err" /\ err' = "pattern"
    /\ UNCHANGED <<opts, instream, sinkMode, buff, recOut, out, sink, nread,
                   n, cap_idx, matched>>

\* read_line returns Ok(0): the function returns Ok(()).
ReadEof ==
    /\ pc = "read"
    /\ instream = <<>>
    /\ pc' = "flush"
    /\ UNCHANGED <<opts, instream, sinkMode, err, buff, recOut, out, sink,
                   nread, n, cap_idx, matched>>

\* read_line returns Err.
ReadError ==
    /\ pc = "read"
    /\ pc' = "err"
    /\ err' = "read"
    /\ UNCHANGED <<opts, instream, sinkMode, buff, recOut, out, sink, nread,
                   n, cap_idx, matched>>

\* One iteration of regex_replace's loop.
RegexReplaceLine ==
    /\ pc = "read"
    /\ Cell = "regex_replace"
    /\ TakeLine
    /\ LET altered == IF opts.number.some
                      THEN Replacen(re, buff', opts.number.v, opts.replace.v)
                      ELSE ReplaceAll(re, buff', opts.replace.v)
       IN  WriteCalls(<<altered>>, "read")
    /\ UNCHANGED <<opts, sinkMode, n, cap_idx, matched>>

\* chunk, then (repl, chunk) for every further chunk of the splitter.
RECURSIVE Interleave(_, _)
Interleave(chunks, repl) ==
    IF chunks = <<>> THEN <<>>
    ELSE <<repl, Head(chunks)>> \o Interleave(Tail(chunks), repl)

SplitterWrites(chunks, repl) ==
    IF chunks = <<>> THEN <<>>
    ELSE <<Head(chunks)>> \o Interleave(Tail(chunks), repl)

\* One iteration of static_replace's loop.
StaticReplaceLine ==
    /\ pc = "read"
    /\ Cell = "static_replace"
    /\ TakeLine
    /\ LET splitter == IF opts.number.some
                       THEN SplitN(opts.number.v, buff', opts.pattern)
                       ELSE Split(buff', opts.pattern)
       IN  WriteCalls(SplitterWrites(splitter, opts.replace.v), "read")
    /\ UNCHANGED <<opts, sinkMode, n, cap_idx, matched>>

\* A variant of StaticExtractLine that writes the newline whether or not the
\* line matched.
StaticExtractLineAlwaysNewline ==
    /\ pc = "read"
    /\ Cell = "static_extract"
    /\ TakeLine
    /\ LET found == Len(StrMatches(buff', opts.pattern))
           taken == IF opts.number.some THEN Min(found, opts.number.v) ELSE found
           chunk == IF opts.replace.some THEN opts.replace.v ELSE opts.pattern
       IN  WriteCalls([j \in 1..taken |-> chunk] \o <<<<NL>>>>, "read")
    /\ UNCHANGED <<opts, sinkMode, n, cap_idx, matched>>

\* One iteration of static_extract's loop.
StaticExtractLine ==
    /\ pc = "read"
    /\ Cell = "static_extract"
    /\ TakeLine
    /\ LET found == Len(StrMatches(buff', opts.pattern))
           taken == IF opts.number.some THEN Min(found, opts.number.v) ELSE found
           chunk == IF opts.replace.some THEN opts.replace.v ELSE opts.pattern
       IN  WriteCalls([j \in 1..taken |-> chunk]
                      \o (IF taken > 0 THEN <<<<NL>>>> ELSE <<>>), "read")
    /\ UNCHANGED <<opts, sinkMode, n, cap_idx, matched>>

\* regex_extract: read_line and the initialisation of n, cap_idx, matched.
RegexExtractRead ==
    /\ pc = "read"
    /\ Cell = "regex_extract"
    /\ TakeLine
    /\ pc' = "scan"
    /\ recOut' = <<>>
    /\ n' = 0
    /\ cap_idx' = 0
    /\ matched' = FALSE
    /\ UNCHANGED <<opts, sinkMode, err, out, sink>>

\* Whether the while loop of regex_extract runs its body once more.
ScanContinues ==
    /\ FindAt(re, buff, cap_idx) # NoMatch
    /\ ~(opts.number.some /\ n >= opts.number.v)

\* regex_extract: one pass through the body of the while loop.
RegexExtractMatch ==
    /\ pc = "scan"
    /\ ScanContinues
    /\ n < MaxPasses
    /\ LET m == FindAt(re, buff, cap_idx)
           text == Slice(buff, m.start, m.end)
           bytes == IF opts.replace.some
                    THEN Replace(re, text, opts.replace.v)
                    ELSE text
       IN  /\ IF sinkMode = "broken"
              THEN /\ pc' = "err"
                   /\ err' = "write"
                   /\ UNCHANGED <<recOut, out, sink, n, cap_idx, matched>>
              ELSE /\ recOut' = recOut \o bytes
                   /\ out' = out \o bytes
                   /\ sink' = sink \o Accepted(bytes)
                   /\ matched' = TRUE
                   /\ cap_idx' = m.end
                   /\ n' = n + 1
                   /\ UNCHANGED <<pc, err>>
    /\ UNCHANGED <<opts, instream, sinkMode, buff, nread>>

\* regex_extract: the loop is left; the newline is written if matched.
RegexExtractEnd ==
    /\ pc = "scan"
    /\ ~ScanContinues
    /\ IF matched /\ sinkMode = "broken"
       THEN /\ pc' = "err"
            /\ err' = "write"
            /\ UNCHANGED <<recOut, out, sink>>
       ELSE /\ pc' = "read"
            /\ recOut' = recOut \o (IF matched THEN <<NL>> ELSE <<>>)
            /\ out' = out \o (IF matched THEN <<NL>> ELSE <<>>)
            /\ sink' = sink \o (IF matched THEN Accepted(<<NL>>) ELSE <<>>)
            /\ UNCHANGED err
    /\ UNCHANGED <<opts, instream, sinkMode, buff, nread, n, cap_idx, matched>>

\* main(): output_stream.flush() after the function returned Ok.
Flush ==
    /\ pc = "flush"
    /\ pc' = "done"
    /\ UNCHANGED <<opts, instream, sinkMode, err, buff, recOut, out, sink,
                   nread, n, cap_idx, matched>>

Next ==
    \/ RegexNew
    \/ ReadEof
    \/ ReadError
    \/ RegexReplaceLine
    \/ StaticReplaceLine
    \/ StaticExtractLine
    \/ RegexExtractRead
    \/ RegexExtractMatch
    \/ RegexExtractEnd
    \/ Flush

Spec == Init /\ [][Next]_vars

\* ------------------------------------------------------------ properties
\* A line has been read and the loop iteration that handles it has finished.
Processed == pc = "read" /\ nread > 0

ReplaceMode == ~ExtractMode

\* The record as the specification understands it: the line without the
\* delimiter that ended it.
HasDelimiter(t) == t # <<>> /\ t[Len(t)] = NL
Content(t) == IF HasDelimiter(t) THEN SubSeq(t, 1, Len(t) - 1) ELSE t

\* The leftmost-first, non-overlapping occurrences of the pattern in t, in
\* the session's match mode.
Occurrences(t) ==
    IF opts.simple
    THEN LET ms == StrMatches(t, opts.pattern)
         IN  [j \in 1..Len(ms) |->
                [start |-> ms[j], end |-> ms[j] + Len(opts.pattern)]]
    ELSE FindIter(re, t, 0, -1)

\* What a substitution puts in place of the matched text.
Substitution(text) ==
    IF opts.simple THEN opts.replace.v ELSE Expand(opts.replace.v, text)

\* t with the spans ms (in order) substituted and everything else kept.
RECURSIVE Substitute(_, _, _)
Substitute(t, ms, last) ==
    IF ms = <<>> THEN Slice(t, last, Len(t))
    ELSE Slice(t, last, Head(ms).start)
         \o Substitution(Slice(t, Head(ms).start, Head(ms).end))
         \o Substitute(t, Tail(ms), Head(ms).end)

\* The members of ms whose index is in S, in order.
RECURSIVE Pick(_, _, _)
Pick(ms, S, j) ==
    IF j > Len(ms) THEN <<>>
    ELSE (IF j \in S THEN <<ms[j]>> ELSE <<>>) \o Pick(ms, S, j + 1)

\* The matched texts of the spans ms, concatenated.
RECURSIVE MatchedTexts(_, _)
MatchedTexts(t, ms) ==
    IF ms = <<>> THEN <<>>
    ELSE Slice(t, Head(ms).start, Head(ms).end) \o MatchedTexts(t, Tail(ms))

\* Whether the whole of s is in the language of atoms k.. (from offset i).
RECURSIVE InLanguage(_, _, _, _)
InLanguage(as, k, s, i) ==
    IF k > Len(as) THEN i = Len(s)
    ELSE IF as[k].star
         THEN \/ InLanguage(as, k + 1, s, i)
              \/ (i < Len(s) /\ s[i + 1] = as[k].c /\ InLanguage(as, k, s, i + 1))
         ELSE i < Len(s) /\ s[i + 1] = as[k].c /\ InLanguage(as, k + 1, s, i + 1)

\* Whether the pattern occurs anywhere in t, in the session's match mode.
PatternOccurs(t) ==
    \E s \in 0..Len(t) : \E e \in s..Len(t) :
        IF opts.simple THEN Slice(t, s, e) = opts.pattern
        ELSE InLanguage(re, 1, Slice(t, s, e), 0)

\* C1: in Replace mode, a line with k occurrences processed with a bound
\* m < k comes out with exactly its m leftmost occurrences substituted and
\* the rest of the line, the other k - m occurrences included, unchanged.
C1_BoundedCount ==
    (Processed /\ ReplaceMode /\ opts.number.some
        /\ opts.number.v < Len(Occurrences(buff)))
    => recOut = Substitute(buff, SubSeq(Occurrences(buff), 1, opts.number.v), 0)

\* C2: in Replace mode with a bound of 0 the output for a line is the line
\* itself, in both match modes.
C2_ZeroBoundIdentity ==
    (Processed /\ ReplaceMode /\ opts.number = [some |-> TRUE, v |-> 0])
    => recOut = buff

\* C3: in Replace mode the output for a line is the line with some of the
\* pattern's occurrences substituted and every other byte kept in place; a
\* line in which the pattern does not occur comes out byte for byte.
C3_NoUnmatchedByteDropped ==
    (Processed /\ ReplaceMode)
    => \E S \in SUBSET (1..Len(Occurrences(buff))) :
          recOut = Substitute(buff, Pick(Occurrences(buff), S, 1), 0)

\* C4: in Replace mode every line read produces its (possibly substituted)
\* content followed by exactly one terminator, also the last line of an
\* input that does not end in a delimiter and a line processed with bound 0.
C4_ReplaceAlwaysTerminated ==
    (Processed /\ ReplaceMode)
    => \E S \in SUBSET (1..Len(Occurrences(Content(buff)))) :
          recOut = Substitute(Content(buff),
                              Pick(Occurrences(Content(buff)), S, 1), 0)
                   \o <<NL>>

C6_ExtractConcatenation ==
    (Processed /\ ExtractMode /\ ~opts.replace.some
        /\ Len(Occurrences(buff)) >= 1
        /\ (opts.number.some => opts.number.v >= 1))
    => LET occ == Occurrences(buff)
           taken == IF opts.number.some THEN Min(Len(occ), opts.number.v)
                    ELSE Len(occ)
       IN  recOut = MatchedTexts(buff, SubSeq(occ, 1, taken)) \o <<NL>>

\* C7: the text handed to the matcher holds no delimiter byte, and what
\* Extract mode writes for a line holds none before its terminator.
C7_DelimiterIsolated ==
    /\ \A i \in 1..Len(buff) : buff[i] # NL
    /\ (Processed /\ ExtractMode /\ ~opts.replace.some)
       => \A i \in 1..(Len(recOut) - 1) : recOut[i] # NL

\* C8: with an invalid regex pattern the regex functions read no line and
\* write nothing: the run is at its start or has ended with the pattern error.
C8_InvalidPatternBeforeAnyRecord ==
    /\ (err = "pattern") => (nread = 0 /\ buff = <<>> /\ out = <<>> /\ sink = <<>>)
    /\ (~opts.simple /\ ~RegexValid(opts.pattern))
       => (pc \in {"start", "err"} /\ nread = 0 /\ out = <<>> /\ sink = <<>>)

\* C8 witness: the run has ended with the pattern error while input is waiting.
C8_Witness ==
    /\ pc = "err"
    /\ err = "pattern"
    /\ instream # <<>>

\* C9: every pass of the scan loop that consumes a match moves the scan
\* position forward.
C9_ForwardProgress ==
    [][(pc = "scan" /\ pc' = "scan") => cap_idx' > cap_idx]_vars

\* C10: when the run ends without an error the sink holds exactly the bytes
\* the program computed, in order.
C10_CompleteDelivery ==
    pc \in {"flush", "done"} => sink = out

====
